---------------------------- MODULE Spec2Model ----------------------------
(***************************************************************************)
(* A model of the Lime language front end (episode_5/Parser.py) and code   *)
(* generator (episode_9/Compiler.py).                                      *)
(*                                                                         *)
(* The parser is modelled as the statement loop of parse_program: one      *)
(* action per loop iteration, the expression parser being a family of      *)
(* recursive operators that thread the parser object through the calls.    *)
(***************************************************************************)
EXTENDS Integers, Sequences, FiniteSets, TLC

VARIABLES
    tokens,     \* the token stream the Lexer produces for the source text
    parser,     \* the Parser object: current_token, peek_token, errors, lexer position
    program,    \* Program.statements of the Program parse_program is building
    ppc,        \* position of parse_program: "idle", "loop" or "done"
    ast,        \* the Program handed to Compiler.compile
    compiler,   \* the Compiler object: module, builder, env, errors
    work,       \* the active calls of compile: the statements each has left
    cpc,        \* position of compile: "idle", "compiling", "done" or "raised"
    event,      \* the step of compile taken last, and the statement it visited
    driver      \* the run of main.py: its position, what it has printed, its exit status

pvars == <<tokens, parser, program, ppc>>
cvars == <<ast, compiler, work, cpc, event>>
vars == <<tokens, parser, program, ppc, ast, compiler, work, cpc, event, driver>>

(***************************************************************************)
(* Bounds of the checked input space.                                      *)
(***************************************************************************)
MaxAnyLen == 3       \* arbitrary token streams have at most this many tokens
MaxOps == 2          \* operator chains have at most this many infix operators
MaxLiteral == MaxOps + 1    \* the k-th operand of a chain is the literal k
MaxLets == 2         \* let programs hold at most this many let statements
MaxBody == 2         \* a function body holds at most this many statements
MaxBranch == 1       \* a branch of an if statement holds at most this many statements
MaxInner == 2        \* the body of a nested function holds at most this many statements
MaxTop == 2          \* at most this many statements outside any function

(***************************************************************************)
(* Tokens (Token.py) and the Lexer's token stream (Lexer.py).              *)
(***************************************************************************)
Token(tt, lit) == [type |-> tt, literal |-> lit]

EOF == Token("EOF", "")

\* Lexer.next_token: the next token of the stream, and EOF from then on.
LexerNextToken(toks, position) ==
    IF position < Len(toks) THEN toks[position + 1] ELSE EOF

LexerAdvance(toks, position) ==
    IF position <= Len(toks) THEN position + 1 ELSE position

(***************************************************************************)
(* AST nodes (AST.py).  An absent node (Python's None) is the record None. *)
(***************************************************************************)
None == [type |-> "None"]

IntegerLiteral(v) == [type |-> "IntegerLiteral", value |-> v]

FloatLiteral(v) == [type |-> "FloatLiteral", value |-> v]

IdentifierLiteral(v) == [type |-> "IdentifierLiteral", value |-> v]

InfixExpression(l, op, r) ==
    [type |-> "InfixExpression", left_node |-> l, operator |-> op, right_node |-> r]

ExpressionStatement(e) == [type |-> "ExpressionStatement", expr |-> e]

LetStatement(n, vt, v) ==
    [type |-> "LetStatement", name |-> n, value_type |-> vt, value |-> v]

(***************************************************************************)
(* Precedences.                                                            *)
(***************************************************************************)
P_LOWEST == 0
P_EQUALS == 1
P_LESSGREATER == 2
P_SUM == 3
P_PRODUCT == 4
P_EXPONENT == 5
P_PREFIX == 6
P_CALL == 7
P_INDEX == 8

\* PRECEDENCES with ASTERISK entered at the level of PLUS.
PRECEDENCES_AsteriskAsSum ==
    [tt \in {"PLUS", "MINUS", "SLASH", "ASTERISK", "MODULUS", "POW"} |->
        CASE tt \in {"PLUS", "MINUS", "ASTERISK"} -> P_SUM
          [] tt \in {"SLASH", "MODULUS"} -> P_PRODUCT
          [] tt = "POW" -> P_EXPONENT]

PRECEDENCES ==
    [tt \in {"PLUS", "MINUS", "SLASH", "ASTERISK", "MODULUS", "POW"} |->
        CASE tt \in {"PLUS", "MINUS"} -> P_SUM
          [] tt \in {"SLASH", "ASTERISK", "MODULUS"} -> P_PRODUCT
          [] tt = "POW" -> P_EXPONENT]

prefix_parse_fns == {"INT", "FLOAT", "LPAREN"}

infix_parse_fns == {"PLUS", "MINUS", "SLASH", "ASTERISK", "POW", "MODULUS"}

(***************************************************************************)
(* Literal conversion: Python's int() and float() on the token's text.     *)
(* A float is the pair of its whole part and its first decimal digit.      *)
(***************************************************************************)
IntText(i) == ToString(i)

FloatText(i) == ToString(i) \o ".5"

PyInt(lit) ==
    IF \E i \in 0..MaxLiteral : IntText(i) = lit
    THEN IntegerLiteral(CHOOSE i \in 0..MaxLiteral : IntText(i) = lit)
    ELSE None

PyFloat(lit) ==
    IF \E i \in 0..MaxLiteral : FloatText(i) = lit
    THEN FloatLiteral([whole |-> CHOOSE i \in 0..MaxLiteral : FloatText(i) = lit,
                       tenths |-> 5])
    ELSE IF \E i \in 0..MaxLiteral : IntText(i) = lit
    THEN FloatLiteral([whole |-> CHOOSE i \in 0..MaxLiteral : IntText(i) = lit,
                       tenths |-> 0])
    ELSE None

(***************************************************************************)
(* Parser helpers.  p is the Parser object.                                *)
(***************************************************************************)
Result(n, p) == [node |-> n, p |-> p]

\* Index in the token stream of the current token (when it is not EOF).
CurrentIndex(p) == p.position - 1

NewParser(toks) ==
    [current_token |-> LexerNextToken(toks, 0),
     peek_token |-> LexerNextToken(toks, 1),
     position |-> LexerAdvance(toks, LexerAdvance(toks, 0)),
     errors |-> <<>>,
     grouped |-> <<>>]

NextToken(toks, p) ==
    [p EXCEPT !.current_token = p.peek_token,
              !.peek_token = LexerNextToken(toks, p.position),
              !.position = LexerAdvance(toks, p.position)]

CurrentTokenIs(p, tt) == p.current_token.type = tt

PeekTokenIs(p, tt) == p.peek_token.type = tt

PeekError(p, tt) ==
    [p EXCEPT !.errors = Append(@, [kind |-> "peek", expected |-> tt,
                                    got |-> p.peek_token.type])]

\* __expect_peek: ok tells the caller whether the token was there.
ExpectPeek(toks, p, tt) ==
    IF PeekTokenIs(p, tt)
    THEN [ok |-> TRUE, p |-> NextToken(toks, p)]
    ELSE [ok |-> FALSE, p |-> PeekError(p, tt)]

CurrentPrecedence(p) ==
    IF p.current_token.type \in DOMAIN PRECEDENCES
    THEN PRECEDENCES[p.current_token.type] ELSE P_LOWEST

PeekPrecedence(p) ==
    IF p.peek_token.type \in DOMAIN PRECEDENCES
    THEN PRECEDENCES[p.peek_token.type] ELSE P_LOWEST

NoPrefixParseFnError(p, tt) ==
    [p EXCEPT !.errors = Append(@, [kind |-> "noprefix", expected |-> tt, got |-> tt])]

ParseIntLiteral(p) ==
    LET lit == PyInt(p.current_token.literal) IN
    IF lit = None
    THEN Result(None, [p EXCEPT !.errors = Append(@,
                 [kind |-> "int", expected |-> "INT", got |-> p.current_token.type])])
    ELSE Result(lit, p)

ParseFloatLiteral(p) ==
    LET lit == PyFloat(p.current_token.literal) IN
    IF lit = None
    THEN Result(None, [p EXCEPT !.errors = Append(@,
                 [kind |-> "float", expected |-> "FLOAT", got |-> p.current_token.type])])
    ELSE Result(lit, p)

(***************************************************************************)
(* Expression methods.                                                     *)
(***************************************************************************)
RECURSIVE ParseExpression(_, _, _)
RECURSIVE ParseInfixLoop(_, _, _, _)
RECURSIVE ParseInfixExpression(_, _, _)
RECURSIVE ParseGroupedExpression(_, _)

\* The inside of a group parsed at the level of a sum.
GroupedPrecedence_Sum == P_SUM

\* The precedence __parse_grouped_expression parses its inside at.
GroupedPrecedence == P_LOWEST

ParseGroupedExpression(toks, p) ==
    LET open == CurrentIndex(p)
        inner == ParseExpression(toks, NextToken(toks, p), GroupedPrecedence)
        close == ExpectPeek(toks, inner.p, "RPAREN")
    IN  IF ~close.ok
        THEN Result(None, close.p)
        ELSE Result(inner.node,
                    [close.p EXCEPT !.grouped = Append(@,
                        [open |-> open, close |-> CurrentIndex(close.p),
                         current |-> close.p.current_token.type,
                         parsed |-> inner.node # None])])

\* The right operand parsed at the lowest level: right-nested trees.
RightPrecedence_Lowest(p) == P_LOWEST

\* The precedence __parse_infix_expression parses its right operand at.
RightPrecedence(p) == CurrentPrecedence(p)

ParseInfixExpression(toks, p, left_node) ==
    LET operator == p.current_token.literal
        precedence == RightPrecedence(p)
        right == ParseExpression(toks, NextToken(toks, p), precedence)
    IN  Result(InfixExpression(left_node, operator, right.node), right.p)

\* The while loop of __parse_expression.
ParseInfixLoop(toks, p, left_expr, precedence) ==
    IF ~PeekTokenIs(p, "SEMICOLON") /\ precedence < PeekPrecedence(p)
    THEN IF p.peek_token.type \notin infix_parse_fns
         THEN Result(left_expr, p)
         ELSE LET r == ParseInfixExpression(toks, NextToken(toks, p), left_expr)
              IN  ParseInfixLoop(toks, r.p, r.node, precedence)
    ELSE Result(left_expr, p)

ParseExpression(toks, p, precedence) ==
    IF p.current_token.type \notin prefix_parse_fns
    THEN Result(None, NoPrefixParseFnError(p, p.current_token.type))
    ELSE LET left == CASE p.current_token.type = "INT" -> ParseIntLiteral(p)
                       [] p.current_token.type = "FLOAT" -> ParseFloatLiteral(p)
                       [] p.current_token.type = "LPAREN" -> ParseGroupedExpression(toks, p)
         IN  ParseInfixLoop(toks, left.p, left.node, precedence)

(***************************************************************************)
(* Statement methods.                                                      *)
(***************************************************************************)
ParseExpressionStatement(toks, p) ==
    LET e == ParseExpression(toks, p, P_LOWEST)
        q == IF PeekTokenIs(e.p, "SEMICOLON") THEN NextToken(toks, e.p) ELSE e.p
    IN  Result(ExpressionStatement(e.node), q)

\* The skip loop that ends __parse_let_statement.
RECURSIVE SkipToSemicolon(_, _)
SkipToSemicolon(toks, p) ==
    IF ~CurrentTokenIs(p, "SEMICOLON") /\ ~CurrentTokenIs(p, "EOF")
    THEN SkipToSemicolon(toks, NextToken(toks, p))
    ELSE p

ParseLetStatement(toks, p) ==
    LET e1 == ExpectPeek(toks, p, "IDENT") IN
    IF ~e1.ok THEN Result(None, e1.p) ELSE
    LET name == IdentifierLiteral(e1.p.current_token.literal)
        e2 == ExpectPeek(toks, e1.p, "COLON") IN
    IF ~e2.ok THEN Result(None, e2.p) ELSE
    LET e3 == ExpectPeek(toks, e2.p, "TYPE") IN
    IF ~e3.ok THEN Result(None, e3.p) ELSE
    LET value_type == e3.p.current_token.literal
        e4 == ExpectPeek(toks, e3.p, "EQ") IN
    IF ~e4.ok THEN Result(None, e4.p) ELSE
    LET value == ParseExpression(toks, NextToken(toks, e4.p), P_LOWEST)
    IN  Result(LetStatement(name, value_type, value.node),
               SkipToSemicolon(toks, value.p))

ParseStatement(toks, p) ==
    IF p.current_token.type = "LET"
    THEN ParseLetStatement(toks, p)
    ELSE ParseExpressionStatement(toks, p)

(***************************************************************************)
(* parse_program: one action per iteration of its while loop.              *)
(***************************************************************************)
\* An iteration without the __next_token that ends it.
ParseProgramStep_NoNextToken(stmt) ==
    /\ program' = IF stmt.node # None THEN Append(program, stmt.node) ELSE program
    /\ parser' = stmt.p
    /\ UNCHANGED <<tokens, ppc>>
    /\ UNCHANGED <<cvars, driver>>

ParseProgramStep(stmt) ==
    /\ program' = IF stmt.node # None THEN Append(program, stmt.node) ELSE program
    /\ parser' = NextToken(tokens, stmt.p)
    /\ UNCHANGED <<tokens, ppc>>
    /\ UNCHANGED <<cvars, driver>>

ParseProgramLet ==
    /\ ppc = "loop"
    /\ parser.current_token.type = "LET"
    /\ ParseProgramStep(ParseStatement(tokens, parser))

ParseProgramExpression ==
    /\ ppc = "loop"
    /\ parser.current_token.type \notin {"EOF", "LET"}
    /\ ParseProgramStep(ParseStatement(tokens, parser))

ParseProgramReturn ==
    /\ ppc = "loop"
    /\ parser.current_token.type = "EOF"
    /\ ppc' = "done"
    /\ UNCHANGED <<tokens, parser, program>>
    /\ UNCHANGED <<cvars, driver>>

(***************************************************************************)
(* The token streams the parser is run on.                                 *)
(***************************************************************************)
IntToken(i) == Token("INT", IntText(i))

FloatToken(i) == Token("FLOAT", FloatText(i))

OperatorTokens ==
    {Token("PLUS", "+"), Token("MINUS", "-"), Token("ASTERISK", "*"),
     Token("SLASH", "/"), Token("MODULUS", "%"), Token("POW", "^")}

LPAREN == Token("LPAREN", "(")
RPAREN == Token("RPAREN", ")")
SEMICOLON == Token("SEMICOLON", ";")
LET_ == Token("LET", "let")
IDENT == Token("IDENT", "a")
COLON == Token("COLON", ":")
TYPE == Token("TYPE", "int")
EQ == Token("EQ", "=")
ILLEGAL == Token("ILLEGAL", "$")

AllTokens ==
    {IntToken(1), FloatToken(1), Token("PLUS", "+"), Token("ASTERISK", "*"), LPAREN, RPAREN, SEMICOLON, LET_, IDENT, COLON,
     TYPE, EQ, ILLEGAL}

RECURSIVE SeqsUpTo(_, _)
SeqsUpTo(S, n) ==
    IF n = 0 THEN {<<>>}
    ELSE LET shorter == SeqsUpTo(S, n - 1)
         IN  shorter \cup {Append(s, t) : s \in shorter, t \in S}

\* Every token stream of at most MaxAnyLen tokens.
AnyStreams == SeqsUpTo(AllTokens, MaxAnyLen)

\* lit (op lit)^n: the operator chains with exactly n operators, the k-th
\* operand being the integer k or the float k.5.
RECURSIVE Chains(_)
Chains(n) ==
    IF n = 0 THEN {<<l>> : l \in {IntToken(1), FloatToken(1)}}
    ELSE {c \o <<o, l>> : c \in Chains(n - 1), o \in OperatorTokens,
                          l \in {IntToken(n + 1), FloatToken(n + 1)}}

ChainStreams == UNION {Chains(n) : n \in 0..MaxOps}

\* Operands that are a literal or a parenthesised chain of at most one operator.
GroupOperators == {Token("PLUS", "+"), Token("ASTERISK", "*")}

GroupAtoms ==
    {<<IntToken(3)>>, <<LPAREN, IntToken(2), RPAREN>>}
    \cup {<<LPAREN, IntToken(1), o, IntToken(2), RPAREN>> : o \in GroupOperators}
    \cup {<<LPAREN, LPAREN, IntToken(1), o, IntToken(2), RPAREN, RPAREN>> :
              o \in GroupOperators}

RECURSIVE GroupChains(_)
GroupChains(n) ==
    IF n = 0 THEN GroupAtoms
    ELSE {c \o <<o>> \o a : c \in GroupChains(n - 1), o \in GroupOperators, a \in GroupAtoms}

GroupStreams == UNION {GroupChains(n) : n \in 0..MaxOps}

\* A chain or group, wrapped once more in parentheses.
WrappedStreams == {<<LPAREN>> \o g \o <<RPAREN>> : g \in GroupChains(1)}

\* let IDENT : TYPE = EXPR ;  and its malformed variants: one of IDENT, COLON,
\* TYPE, EQ left out or replaced by another token.
LetValues == {<<IntToken(1)>>, <<IntToken(1), Token("PLUS", "+"), IntToken(2)>>}

LetHead == <<IDENT, COLON, TYPE, EQ>>

Replacements == {IntToken(3), SEMICOLON}

DropAt(s, k) == SubSeq(s, 1, k - 1) \o SubSeq(s, k + 1, Len(s))

ReplaceAt(s, k, t) == [s EXCEPT ![k] = t]

MalformedHeads ==
    ({DropAt(LetHead, k) : k \in 1..4}
     \cup {ReplaceAt(LetHead, k, t) : k \in 1..4, t \in Replacements}) \ {LetHead}

WellFormedLets == {<<LET_>> \o LetHead \o v \o <<SEMICOLON>> : v \in LetValues}

MalformedLets == {<<LET_>> \o h \o <<IntToken(1), SEMICOLON>> : h \in MalformedHeads}

LetStatements == WellFormedLets \cup MalformedLets

RECURSIVE LetPrograms(_)
LetPrograms(n) ==
    IF n = 0 THEN {<<>>}
    ELSE {s \o l : s \in LetPrograms(n - 1), l \in LetStatements}

LetStreams == UNION {LetPrograms(n) : n \in 1..MaxLets}

\* Expression statements in sequence, with and without their semicolons.
MixedStreams ==
    {c \o <<SEMICOLON>> \o l : c \in Chains(1), l \in WellFormedLets}
    \cup {c \o <<SEMICOLON>> : c \in ChainStreams \cup GroupStreams}

TokenStreams ==
    AnyStreams \cup ChainStreams \cup GroupStreams \cup WrappedStreams
    \cup LetStreams \cup MixedStreams

(***************************************************************************)
(* The code generator (Compiler.py).  c is the Compiler object.  Its       *)
(* module is built with llvmlite: the builder operations below raise what  *)
(* llvmlite raises, and an exception ends the compile call.                *)
(***************************************************************************)
ReturnStatement(v) == [type |-> "ReturnStatement", return_value |-> v]

AssignStatement(n, v) ==
    [type |-> "AssignStatement", ident |-> IdentifierLiteral(n), right_value |-> v]

BlockStatement(stmts) == [type |-> "BlockStatement", statements |-> stmts]

IfStatement(cond, cons, alt) ==
    [type |-> "IfStatement", condition |-> cond, consequence |-> cons,
     alternative |-> alt]

FunctionStatement(n, rt, body) ==
    [type |-> "FunctionStatement", name |-> IdentifierLiteral(n), parameters |-> <<>>,
     return_type |-> rt, body |-> body]

CallExpression(n) ==
    [type |-> "CallExpression", function |-> IdentifierLiteral(n), arguments |-> <<>>]

BooleanLiteral(v) == [type |-> "BooleanLiteral", value |-> v]

\* llvmlite types
IntType(bits) == [kind |-> "int", bits |-> bits]

FloatType == [kind |-> "float"]

PointerType(t) == [kind |-> "ptr", pointee |-> t]

FunctionType(ret) == [kind |-> "fn", ret |-> ret]

IsIntType(t) == t # None /\ t.kind = "int"

IsFloatType(t) == t # None /\ t.kind = "float"

IsPointerType(t) == t # None /\ t.kind = "ptr"

type_map ==
    [n \in {"int", "float", "bool"} |->
        CASE n = "int" -> IntType(32)
          [] n = "float" -> FloatType
          [] n = "bool" -> IntType(1)]

\* llvmlite values
Constant(t, v) == [kind |-> "const", vtype |-> t, value |-> v]

GlobalVariable(t, n) == [kind |-> "global", vtype |-> PointerType(t), name |-> n]

Function(n, ret, index) ==
    [kind |-> "function", vtype |-> PointerType(FunctionType(ret)), name |-> n,
     index |-> index]

Instruction(op, t, args, id) ==
    [kind |-> "instr", vtype |-> t, op |-> op, args |-> args, id |-> id]

Terminators == {"ret", "br", "cbranch"}

\* Environment (Environment.py): frames of records, each with its parent.
Binding(v, t) == [value |-> v, btype |-> t]

NewEnvironment(parent) == [parent |-> parent, records |-> <<>>]

EnvDefine(frame, name, v, t) ==
    [frame EXCEPT !.records =
        [n \in (DOMAIN frame.records) \cup {name} |->
            IF n = name THEN Binding(v, t) ELSE frame.records[n]]]

RECURSIVE EnvResolve(_, _, _)
EnvResolve(envs, e, name) ==
    IF name \in DOMAIN envs[e].records THEN envs[e].records[name]
    ELSE IF envs[e].parent # 0 THEN EnvResolve(envs, envs[e].parent, name)
    ELSE None

Define(c, name, v, t) == [c EXCEPT !.envs[c.env] = EnvDefine(@, name, v, t)]

Lookup(c, name) == EnvResolve(c.envs, c.env, name)

\* Compiler.__init__ and __initialize_builtins
NewCompiler ==
    [module |-> [globals |-> {"true", "false"}, functions |-> <<>>],
     blocks |-> <<>>,
     builder |-> [block |-> 0, anchor |-> 0],
     counter |-> 0,
     envs |-> <<EnvDefine(EnvDefine(NewEnvironment(0),
                    "true", GlobalVariable(IntType(1), "true"), PointerType(IntType(1))),
                    "false", GlobalVariable(IntType(1), "false"), PointerType(IntType(1)))>>,
     env |-> 1,
     errors |-> <<>>,
     exception |-> "none",
     values |-> 0]

Raise(c, exc) == [c EXCEPT !.exception = exc]

Raised(c) == c.exception # "none"

Value(c, v, t) == [c |-> c, value |-> v, vtype |-> t]

\* IRBuilder
NewBuilder(c, b) == [block |-> b, anchor |-> Len(c.blocks[b].instructions)]

PositionAtEnd(c, b) == [c EXCEPT !.builder = NewBuilder(c, b)]

InsertAt(s, k, x) == SubSeq(s, 1, k) \o <<x>> \o SubSeq(s, k + 1, Len(s))

BuilderInsert(c, instr) ==
    [c EXCEPT !.blocks[c.builder.block].instructions = InsertAt(@, c.builder.anchor, instr),
              !.builder.anchor = @ + 1,
              !.values = @ + 1]

IsTerminated(c, b) == c.blocks[b].terminated

\* IRBuilder._set_terminator
SetTerminator(c, instr) ==
    IF c.builder.block = 0 THEN Raise(c, "AssertionError")
    ELSE IF IsTerminated(c, c.builder.block) THEN Raise(c, "AssertionError")
    ELSE [BuilderInsert(c, instr) EXCEPT !.blocks[c.builder.block].terminated = TRUE]

Alloca(c, t) ==
    IF t = None THEN Value(Raise(c, "AttributeError"), None, None)
    ELSE IF c.builder.block = 0 THEN Value(Raise(c, "AssertionError"), None, None)
    ELSE LET al == Instruction("alloca", PointerType(t), <<>>, c.values + 1)
         IN  Value(BuilderInsert(c, al), al, al.vtype)

Store(c, v, ptr) ==
    IF ~IsPointerType(ptr.vtype) THEN Raise(c, "TypeError")
    ELSE IF v = None THEN Raise(c, "AttributeError")
    ELSE IF ptr.vtype.pointee # v.vtype THEN Raise(c, "TypeError")
    ELSE IF c.builder.block = 0 THEN Raise(c, "AssertionError")
    ELSE BuilderInsert(c, Instruction("store", None, <<v, ptr>>, c.values + 1))

Load(c, ptr) ==
    IF ~IsPointerType(ptr.vtype) THEN Value(Raise(c, "TypeError"), None, None)
    ELSE IF c.builder.block = 0 THEN Value(Raise(c, "AssertionError"), None, None)
    ELSE LET ld == Instruction("load", ptr.vtype.pointee, <<ptr>>, c.values + 1)
         IN  Value(BuilderInsert(c, ld), ld, ld.vtype)

\* add, sub, mul, sdiv, srem and their float forms
BinaryOp(c, op, lhs, rhs) ==
    IF lhs = None \/ rhs = None THEN Value(Raise(c, "AttributeError"), None, None)
    ELSE IF lhs.vtype # rhs.vtype THEN Value(Raise(c, "ValueError"), None, None)
    ELSE IF c.builder.block = 0 THEN Value(Raise(c, "AssertionError"), None, None)
    ELSE LET i == Instruction(op, lhs.vtype, <<lhs, rhs>>, c.values + 1)
         IN  Value(BuilderInsert(c, i), i, i.vtype)

\* icmp_signed and fcmp_ordered
CompareOp(c, op, cmp, lhs, rhs) ==
    IF lhs = None THEN Value(Raise(c, "AttributeError"), None, None)
    ELSE IF c.builder.block = 0 THEN Value(Raise(c, "AssertionError"), None, None)
    ELSE LET i == Instruction(op, IntType(1), <<cmp, lhs, rhs>>, c.values + 1)
         IN  Value(BuilderInsert(c, i), i, i.vtype)

Call(c, func) ==
    IF func.kind # "function" THEN Value(Raise(c, "AttributeError"), None, None)
    ELSE IF c.builder.block = 0 THEN Value(Raise(c, "AssertionError"), None, None)
    ELSE LET i == Instruction("call", func.vtype.pointee.ret, <<func>>, c.values + 1)
         IN  Value(BuilderInsert(c, i), i, i.vtype)

Ret(c, v) ==
    SetTerminator(c, Instruction("ret", None, IF v = None THEN <<>> ELSE <<v>>,
                                 c.values + 1))

Branch(c, target) ==
    SetTerminator(c, Instruction("br", None, <<target>>, c.values + 1))

CBranch(c, cond, truebr, falsebr) ==
    SetTerminator(c, Instruction("cbranch", None, <<cond, truebr, falsebr>>,
                                 c.values + 1))

\* Function.append_basic_block
AppendBasicBlock(c, fn, label) ==
    [c EXCEPT !.blocks = Append(@, [function |-> fn, name |-> label,
                                    instructions |-> <<>>, terminated |-> FALSE]),
              !.module.functions[fn].blocks = Append(@, Len(c.blocks) + 1)]

(***************************************************************************)
(* Expressions.                                                            *)
(***************************************************************************)
ArithmeticOps == {"+", "-", "*", "/", "%"}

ComparisonOps == {"<", "<=", ">", ">=", "=="}

IntOpcode(operator) ==
    CASE operator = "+" -> "add" [] operator = "-" -> "sub"
      [] operator = "*" -> "mul" [] operator = "/" -> "sdiv"
      [] operator = "%" -> "srem"

FloatOpcode(operator) ==
    CASE operator = "+" -> "fadd" [] operator = "-" -> "fsub"
      [] operator = "*" -> "fmul" [] operator = "/" -> "fdiv"
      [] operator = "%" -> "frem"

RECURSIVE ResolveValue(_, _)
RECURSIVE VisitInfixExpression(_, _)

\* What __visit_infix_expression does when the operands are not both int or
\* both float: it returns no value and no type.
InfixKindMismatch(c) == Value(c, None, None)

VisitInfixExpression(c, node) ==
    LET operator == node.operator
        left == ResolveValue(c, node.left_node)
    IN  IF Raised(left.c) THEN left ELSE
    LET right == ResolveValue(left.c, node.right_node)
    IN  IF Raised(right.c) THEN right ELSE
        IF IsIntType(right.vtype) /\ IsIntType(left.vtype)
        THEN CASE operator \in ArithmeticOps ->
                    LET r == BinaryOp(right.c, IntOpcode(operator), left.value, right.value)
                    IN  Value(r.c, r.value, type_map["int"])
               [] operator \in ComparisonOps ->
                    LET r == CompareOp(right.c, "icmp", operator, left.value, right.value)
                    IN  Value(r.c, r.value, IntType(1))
               [] OTHER -> Value(right.c, None, type_map["int"])
        ELSE IF IsFloatType(right.vtype) /\ IsFloatType(left.vtype)
        THEN CASE operator \in ArithmeticOps ->
                    LET r == BinaryOp(right.c, FloatOpcode(operator), left.value, right.value)
                    IN  Value(r.c, r.value, FloatType)
               [] operator \in ComparisonOps ->
                    LET r == CompareOp(right.c, "fcmp", operator, left.value, right.value)
                    IN  Value(r.c, r.value, IntType(1))
               [] OTHER -> Value(right.c, None, FloatType)
        ELSE InfixKindMismatch(right.c)

\* What __visit_call_expression and __resolve_value do with a name lookup does
\* not find: unpacking None raises TypeError.
UnboundName(c, name) == Value(Raise(c, "TypeError"), None, None)

VisitCallExpression(c, node) ==
    LET name == node.function.value
        found == Lookup(c, name)
    IN  IF found = None THEN UnboundName(c, name)
        ELSE LET ret == Call(c, found.value)
             IN  Value(ret.c, ret.value, found.btype)

ResolveValue(c, node) ==
    CASE node.type = "IntegerLiteral" ->
            Value(c, Constant(type_map["int"], node.value), type_map["int"])
      [] node.type = "FloatLiteral" ->
            Value(c, Constant(type_map["float"], node.value), type_map["float"])
      [] node.type = "IdentifierLiteral" ->
            LET found == Lookup(c, node.value)
            IN  IF found = None THEN UnboundName(c, node.value)
                ELSE LET ld == Load(c, found.value)
                     IN  Value(ld.c, ld.value, found.btype)
      [] node.type = "BooleanLiteral" ->
            Value(c, Constant(IntType(1), IF node.value THEN 1 ELSE 0), IntType(1))
      [] node.type = "InfixExpression" -> VisitInfixExpression(c, node)
      [] node.type = "CallExpression" -> VisitCallExpression(c, node)

(***************************************************************************)
(* Statements.                                                             *)
(***************************************************************************)
\* The frame __visit_let_statement looks the name up in: lookup searches the
\* active frame and its ancestors.
LetLookup(c, name) == Lookup(c, name)

VisitLetStatement(c, node) ==
    LET name == node.name.value
        v == ResolveValue(c, node.value)
    IN  IF Raised(v.c) THEN v.c
        ELSE IF LetLookup(v.c, name) = None
        THEN LET ptr == Alloca(v.c, v.vtype)
             IN  IF Raised(ptr.c) THEN ptr.c
                 ELSE LET st == Store(ptr.c, v.value, ptr.value)
                      IN  IF Raised(st) THEN st
                          ELSE Define(st, name, ptr.value, v.vtype)
        ELSE Store(v.c, v.value, LetLookup(v.c, name).value)

VisitReturnStatement(c, node) ==
    LET v == ResolveValue(c, node.return_value)
    IN  IF Raised(v.c) THEN v.c ELSE Ret(v.c, v.value)

\* What __visit_assign_statement does with a target lookup does not find.
AssignUnbound(c, name) ==
    [c EXCEPT !.errors = Append(@, "COMPILE ERROR: Identifier " \o name
                    \o " has not been declared before it was re-assigned.")]

VisitAssignStatement(c, node) ==
    LET name == node.ident.value
        v == ResolveValue(c, node.right_value)
    IN  IF Raised(v.c) THEN v.c
        ELSE IF Lookup(v.c, name) = None
        THEN AssignUnbound(v.c, name)
        ELSE Store(v.c, v.value, Lookup(v.c, name).value)

\* compile() of the expression of an expression statement: only infix and call
\* expressions have a case.
VisitExpressionStatement(c, node) ==
    CASE node.expr.type = "InfixExpression" -> VisitInfixExpression(c, node.expr).c
      [] node.expr.type = "CallExpression" -> VisitCallExpression(c, node.expr).c
      [] OTHER -> c

(***************************************************************************)
(* The calls of compile that are active: work is a stack of frames, the    *)
(* last one the innermost call, each holding the statements it has left.   *)
(***************************************************************************)
Frame(kind, stmts) ==
    [kind |-> kind, statements |-> stmts, previous_builder |-> None,
     previous_env |-> 0, name |-> "", func |-> None, return_type |-> None,
     bbelse |-> 0, bbend |-> 0, alternative |-> None]

Top == work[Len(work)]

HasNext == cpc = "compiling" /\ Len(work) > 0 /\ Top.statements # <<>>

NextStatement == Head(Top.statements)

AtEnd(kind) ==
    cpc = "compiling" /\ Len(work) > 0 /\ Top.statements = <<>> /\ Top.kind = kind

\* The stack with the statement at hand taken off the innermost call.
Advanced == [work EXCEPT ![Len(work)].statements = Tail(@)]

Popped == SubSeq(work, 1, Len(work) - 1)

Event(kind, stmt) == [kind |-> kind, stmt |-> stmt]

\* A statement visited in one step: c2 is the compiler after it.
Finish(kind, c2, w) ==
    /\ compiler' = c2
    /\ work' = w
    /\ cpc' = IF Raised(c2) THEN "raised" ELSE cpc
    /\ event' = Event(kind, IF HasNext THEN NextStatement ELSE None)
    /\ UNCHANGED <<ast, tokens, parser, program, ppc, driver>>

CompileExpressionStatement ==
    /\ HasNext /\ NextStatement.type = "ExpressionStatement"
    /\ Finish("expression", VisitExpressionStatement(compiler, NextStatement), Advanced)

CompileLetStatement ==
    /\ HasNext /\ NextStatement.type = "LetStatement"
    /\ Finish("let", VisitLetStatement(compiler, NextStatement), Advanced)

CompileReturnStatement ==
    /\ HasNext /\ NextStatement.type = "ReturnStatement"
    /\ Finish("return", VisitReturnStatement(compiler, NextStatement), Advanced)

CompileAssignStatement ==
    /\ HasNext /\ NextStatement.type = "AssignStatement"
    /\ Finish("assign", VisitAssignStatement(compiler, NextStatement), Advanced)

\* ir.Function(module, fnty, name) and func.append_basic_block
NewFunction(c, name, ret) ==
    IF name \in c.module.globals THEN Raise(c, "DuplicatedNameError")
    ELSE AppendBasicBlock(
            [c EXCEPT !.module.globals = @ \cup {name},
                      !.module.functions = Append(@, [name |-> name, ret |-> ret,
                                                      blocks |-> <<>>])],
            Len(c.module.functions) + 1, "entry")

\* The body's frame made without the function's name in it.
EnterFunction_NoOwnName(c, name, ret) ==
    LET made == NewFunction(c, name, ret)
        inside == [made EXCEPT !.builder = NewBuilder(made, Len(made.blocks)),
                               !.envs = Append(@, NewEnvironment(c.env)),
                               !.env = Len(c.envs) + 1]
    IN  IF Raised(made) THEN made ELSE inside

\* The function's name bound in the frame around the statement before the
\* body's frame is made.
EnterFunction_EnclosingFirst(c, name, ret) ==
    LET made == NewFunction(c, name, ret)
        func == Function(name, ret, Len(made.module.functions))
        bound == Define(made, name, func, ret)
        inside == [bound EXCEPT !.builder = NewBuilder(made, Len(made.blocks)),
                                !.envs = Append(@, NewEnvironment(c.env)),
                                !.env = Len(c.envs) + 1]
    IN  IF Raised(made) THEN made ELSE inside

\* The frame __visit_function_statement binds the function's name in before it
\* compiles the body: the body's own frame.
EnterFunction(c, name, ret) ==
    LET made == NewFunction(c, name, ret)
        func == Function(name, ret, Len(made.module.functions))
        inside == [made EXCEPT !.builder = NewBuilder(made, Len(made.blocks)),
                               !.envs = Append(@, NewEnvironment(c.env)),
                               !.env = Len(c.envs) + 1]
    IN  IF Raised(made) THEN made ELSE Define(inside, name, func, ret)

\* __visit_function_statement up to its compile(body)
CompileFunctionStatement ==
    /\ HasNext /\ NextStatement.type = "FunctionStatement"
    /\ LET node == NextStatement
           name == node.name.value
           known == node.return_type \in DOMAIN type_map
           c2 == IF known THEN EnterFunction(compiler, name, type_map[node.return_type])
                 ELSE Raise(compiler, "KeyError")
           frame == [Frame("function", node.body.statements) EXCEPT
                        !.previous_builder = compiler.builder,
                        !.previous_env = compiler.env,
                        !.name = name,
                        !.func = IF Raised(c2) THEN None
                                 ELSE Function(name, type_map[node.return_type],
                                               Len(c2.module.functions)),
                        !.return_type = IF known THEN type_map[node.return_type] ELSE None]
       IN  Finish("function", c2, IF Raised(c2) THEN Advanced ELSE Append(Advanced, frame))

\* The body's frame left active when the function statement is done.
LeaveFunction_KeepFrame(c, frame) ==
    [Define(c, frame.name, frame.func, frame.return_type)
     EXCEPT !.builder = frame.previous_builder]

\* The body's builder left active when the function statement is done.
LeaveFunction_KeepBuilder(c, frame) ==
    Define([c EXCEPT !.env = frame.previous_env], frame.name, frame.func,
           frame.return_type)

\* What __visit_function_statement does once its body is compiled.
LeaveFunction(c, frame) ==
    [Define([c EXCEPT !.env = frame.previous_env], frame.name, frame.func,
            frame.return_type)
     EXCEPT !.builder = frame.previous_builder]

FunctionStatementReturn ==
    /\ AtEnd("function")
    /\ Finish("function_end", LeaveFunction(compiler, Top), Popped)

\* IRBuilder.if_then and if_else up to the body of the first branch: the new
\* blocks, the conditional branch, the builder moved to the first block.
EnterIf(c, test, withElse) ==
    IF c.builder.block = 0 THEN Raise(c, "AttributeError") ELSE
    LET fn == c.blocks[c.builder.block].function
        bbif == Len(c.blocks) + 1
        bbelse == IF withElse THEN bbif + 1 ELSE 0
        bbend == IF withElse THEN bbif + 2 ELSE bbif + 1
        c1 == AppendBasicBlock(c, fn, "if")
        c2 == IF withElse THEN AppendBasicBlock(c1, fn, "else") ELSE c1
        c3 == AppendBasicBlock(c2, fn, "endif")
        br == CBranch(c3, test, bbif, IF withElse THEN bbelse ELSE bbend)
    IN  IF Raised(br) THEN br ELSE PositionAtEnd(br, bbif)

\* __visit_if_statement up to its first compile(consequence)
CompileIfStatement ==
    /\ HasNext /\ NextStatement.type = "IfStatement"
    /\ LET node == NextStatement
           test == ResolveValue(compiler, node.condition)
           withElse == node.alternative # None
           c2 == IF Raised(test.c) THEN test.c ELSE EnterIf(test.c, test.value, withElse)
           frame == [Frame(IF withElse THEN "if_true" ELSE "if_then",
                           node.consequence.statements) EXCEPT
                        !.bbelse = IF withElse THEN Len(test.c.blocks) + 2 ELSE 0,
                        !.bbend = Len(test.c.blocks) + (IF withElse THEN 3 ELSE 2),
                        !.alternative = node.alternative]
       IN  Finish("if", c2, IF Raised(c2) THEN Advanced ELSE Append(Advanced, frame))

\* IRBuilder._branch_helper after the body: a branch to the merge block unless
\* the block the builder stands in is terminated.
BranchHelperExit(c, bbexit) ==
    IF ~IsTerminated(c, c.builder.block) THEN Branch(c, bbexit) ELSE c

\* The end of `with self.builder.if_then(test)`.
IfThenReturn ==
    /\ AtEnd("if_then")
    /\ Finish("if_end", PositionAtEnd(BranchHelperExit(compiler, Top.bbend), Top.bbend),
              Popped)

\* The end of `with true` and the start of `with otherwise`.
IfTrueReturn ==
    /\ AtEnd("if_true")
    /\ Finish("else",
              PositionAtEnd(BranchHelperExit(compiler, Top.bbend), Top.bbelse),
              Append(Popped, [Frame("if_otherwise", Top.alternative.statements) EXCEPT
                                 !.bbend = Top.bbend]))

\* The end of `with otherwise` and of `with self.builder.if_else(test)`.
IfOtherwiseReturn ==
    /\ AtEnd("if_otherwise")
    /\ Finish("if_end", PositionAtEnd(BranchHelperExit(compiler, Top.bbend), Top.bbend),
              Popped)

\* __visit_program has compiled every statement: compile returns.
CompileReturn ==
    /\ AtEnd("program")
    /\ cpc' = "done"
    /\ event' = Event("done", None)
    /\ UNCHANGED <<ast, compiler, work, tokens, parser, program, ppc, driver>>

(***************************************************************************)
(* The programs the compiler is run on.                                    *)
(***************************************************************************)
Int1 == IntegerLiteral(1)
Float15 == FloatLiteral([whole |-> 1, tenths |-> 5])
Ident(n) == IdentifierLiteral(n)
Let(n, v) == LetStatement(IdentifierLiteral(n), "int", v)
Fn(n, body) == FunctionStatement(n, "int", BlockStatement(body))
If(cond, cons) == IfStatement(cond, BlockStatement(cons), None)
IfElse(cond, cons, alt) == IfStatement(cond, BlockStatement(cons), BlockStatement(alt))

\* The statements of a function body.
BodyStatements ==
    {Let("a", Int1), Let("b", Float15), Let("a", Ident("b")),
     AssignStatement("a", Int1), AssignStatement("b", Ident("a")),
     ReturnStatement(Int1), ReturnStatement(Ident("a")),
     ReturnStatement(InfixExpression(Ident("a"), "+", Int1)),
     ReturnStatement(InfixExpression(Int1, "<", Int1)),
     ExpressionStatement(CallExpression("f")),
     ExpressionStatement(CallExpression("g")),
     ExpressionStatement(Ident("b")),
     ExpressionStatement(InfixExpression(Int1, "+", Float15)),
     ExpressionStatement(InfixExpression(Int1, "^", Int1)),
     AssignStatement("a", InfixExpression(Int1, "+", Float15))}

\* One function, and at most one statement after it.
AfterFunction ==
    {ExpressionStatement(CallExpression("f")), AssignStatement("a", Int1),
     Fn("g", <<ReturnStatement(CallExpression("f"))>>),
     Fn("f", <<ReturnStatement(Int1)>>),
     FunctionStatement("g", "str", BlockStatement(<<>>))}

Bodies == SeqsUpTo(BodyStatements, MaxBody)

Afters == {<<>>} \cup {<<s>> : s \in AfterFunction}

FlatProgram(body, after) == <<Fn("f", body)>> \o after

\* A function whose body is an if statement, with a statement before and after.
Conditions == {InfixExpression(Int1, "<", Int1), BooleanLiteral(TRUE),
               InfixExpression(Int1, "+", Float15)}

BranchStatements ==
    {ReturnStatement(Int1), Let("b", Int1), AssignStatement("a", Int1),
     ReturnStatement(Ident("a")),
     If(BooleanLiteral(TRUE), <<ReturnStatement(Int1)>>)}

Branches == SeqsUpTo(BranchStatements, MaxBranch)

Alternatives ==
    {None, BlockStatement(<<>>), BlockStatement(<<ReturnStatement(Int1)>>),
     BlockStatement(<<Let("b", Int1)>>), BlockStatement(<<AssignStatement("a", Int1)>>)}

BeforeIf == {<<>>, <<Let("a", Int1)>>, <<ReturnStatement(Int1)>>}

AfterIf == {<<>>, <<ReturnStatement(Int1)>>, <<ReturnStatement(Ident("b"))>>}

IfProgram(before, cond, cons, alt, after) ==
    <<Fn("f", before \o <<IfStatement(cond, BlockStatement(cons), alt)>> \o after)>>

\* A function g nested in a function f.
InnerStatements ==
    {ReturnStatement(Ident("a")), Let("b", Int1), Let("a", Float15),
     AssignStatement("a", Int1), ReturnStatement(CallExpression("f")),
     ReturnStatement(CallExpression("g")),
     If(InfixExpression(Ident("a"), "<", Int1), <<ReturnStatement(Ident("a"))>>)}

Inners == SeqsUpTo(InnerStatements, MaxInner)

BeforeInner == {<<>>, <<Let("a", Int1)>>}

AfterInner ==
    {<<>>, <<ReturnStatement(Ident("a"))>>, <<ReturnStatement(Ident("b"))>>,
     <<ReturnStatement(CallExpression("g"))>>}

AfterOuter == {<<>>, <<ExpressionStatement(CallExpression("g"))>>}

NestedProgram(before, inner, after, last) ==
    <<Fn("f", before \o <<Fn("g", inner)>> \o after)>> \o last

\* Statements outside any function.
TopStatements ==
    {Let("a", Int1), AssignStatement("a", Int1), ReturnStatement(Int1),
     ExpressionStatement(InfixExpression(Int1, "+", Float15)),
     ExpressionStatement(InfixExpression(Float15, "^", Float15)),
     ExpressionStatement(CallExpression("f")),
     ExpressionStatement(Int1),
     If(BooleanLiteral(TRUE), <<>>),
     Fn("f", <<ReturnStatement(Int1)>>), Fn("f", <<>>)}

TopPrograms == SeqsUpTo(TopStatements, MaxTop)

\* p is one of the programs the compiler is run on.
IsProgram(p) ==
    \/ \E body \in Bodies, after \in Afters : p = FlatProgram(body, after)
    \/ \E before \in BeforeIf, cond \in Conditions, cons \in Branches,
          alt \in Alternatives, after \in AfterIf :
          p = IfProgram(before, cond, cons, alt, after)
    \/ \E before \in BeforeInner, inner \in Inners, after \in AfterInner,
          last \in AfterOuter : p = NestedProgram(before, inner, after, last)
    \/ p \in TopPrograms

(***************************************************************************)
(* Specifications.                                                         *)
(***************************************************************************)
CompilerIdle ==
    /\ ast = <<>>
    /\ compiler = NewCompiler
    /\ work = <<>>
    /\ cpc = "idle"
    /\ event = Event("none", None)

\* main.py is not running.
DriverIdle == driver = [pc |-> "idle", printed |-> <<>>, exit |-> 0]

ParserIdle ==
    /\ tokens = <<>>
    /\ parser = NewParser(<<>>)
    /\ program = <<>>
    /\ ppc = "idle"

ParserInit ==
    /\ tokens \in TokenStreams
    /\ parser = NewParser(tokens)
    /\ program = <<>>
    /\ ppc = "loop"
    /\ CompilerIdle
    /\ DriverIdle

ParserNext == ParseProgramLet \/ ParseProgramExpression \/ ParseProgramReturn

ParserSpec == ParserInit /\ [][ParserNext]_vars

\* compile(node=program) on a new Compiler
CompilerInit ==
    /\ IsProgram(ast)
    /\ compiler = NewCompiler
    /\ work = <<Frame("program", ast)>>
    /\ cpc = "compiling"
    /\ event = Event("none", None)
    /\ ParserIdle
    /\ DriverIdle

CompilerNext ==
    \/ CompileExpressionStatement
    \/ CompileLetStatement
    \/ CompileReturnStatement
    \/ CompileAssignStatement
    \/ CompileFunctionStatement
    \/ FunctionStatementReturn
    \/ CompileIfStatement
    \/ IfThenReturn
    \/ IfTrueReturn
    \/ IfOtherwiseReturn
    \/ CompileReturn

CompilerSpec == CompilerInit /\ [][CompilerNext]_vars

(***************************************************************************)
(* Properties of the parser.                                               *)
(***************************************************************************)
\* The token stream without the semicolon that may end it.
Body(toks) ==
    IF Len(toks) > 0 /\ toks[Len(toks)] = SEMICOLON
    THEN SubSeq(toks, 1, Len(toks) - 1) ELSE toks

IsLiteral(t) == t.type \in {"INT", "FLOAT"}

IsOperator(t) == t \in OperatorTokens

\* The node a literal token stands for.
Operand(t) == IF t.type = "INT" THEN PyInt(t.literal) ELSE PyFloat(t.literal)

\* How tightly the language's operators bind: sums, products, exponent.
BindingLevel(t) ==
    CASE t.literal \in {"+", "-"} -> 1
      [] t.literal \in {"*", "/", "%"} -> 2
      [] t.literal = "^" -> 3

\* a OP1 b OP2 c over literals
IsTriple(toks) ==
    /\ Len(toks) = 5
    /\ IsLiteral(toks[1]) /\ IsOperator(toks[2]) /\ IsLiteral(toks[3])
    /\ IsOperator(toks[4]) /\ IsLiteral(toks[5])

LeftNested(t) ==
    InfixExpression(InfixExpression(Operand(t[1]), t[2].literal, Operand(t[3])),
                    t[4].literal, Operand(t[5]))

RightNested(t) ==
    InfixExpression(Operand(t[1]), t[2].literal,
                    InfixExpression(Operand(t[3]), t[4].literal, Operand(t[5])))

\* C1: when parse_program is done with `a OP1 b OP2 c`, OP2 binding tighter than
\* OP1, the one statement of the program is the expression OP1(a, OP2(b, c)).
C1_TighterOperatorNestsRight ==
    (ppc = "done" /\ IsTriple(Body(tokens))
        /\ BindingLevel(Body(tokens)[4]) > BindingLevel(Body(tokens)[2]))
    => program = <<ExpressionStatement(RightNested(Body(tokens)))>>

\* 1 + 2 * 3 has been parsed as +(1, *(2, 3)).
C1_Witness ==
    /\ ppc = "done"
    /\ tokens = <<IntToken(1), Token("PLUS", "+"), IntToken(2),
                  Token("ASTERISK", "*"), IntToken(3)>>
    /\ program = <<ExpressionStatement(
           InfixExpression(IntegerLiteral(1), "+",
               InfixExpression(IntegerLiteral(2), "*", IntegerLiteral(3))))>>

\* lit (OP lit)^n with every operator of one binding level
IsLevelChain(toks) ==
    /\ Len(toks) >= 3 /\ Len(toks) % 2 = 1
    /\ \A i \in 1..Len(toks) :
          IF i % 2 = 1 THEN IsLiteral(toks[i]) ELSE IsOperator(toks[i])
    /\ \A i, j \in 1..Len(toks) :
          (i % 2 = 0 /\ j % 2 = 0) => BindingLevel(toks[i]) = BindingLevel(toks[j])

\* The left-nested tree of the first 2n+1 tokens of a chain.
RECURSIVE LeftTree(_, _)
LeftTree(toks, n) ==
    IF n = 0 THEN Operand(toks[1])
    ELSE InfixExpression(LeftTree(toks, n - 1), toks[2 * n].literal,
                         Operand(toks[2 * n + 1]))

\* C2: when parse_program is done with a chain of operators of one precedence
\* level, the one statement of the program is the left-nested tree of the chain.
C2_SameLevelNestsLeft ==
    (ppc = "done" /\ IsLevelChain(Body(tokens)))
    => program = <<ExpressionStatement(
                      LeftTree(Body(tokens), (Len(Body(tokens)) - 1) \div 2))>>

\* 1 - 2 - 3 has been parsed as -(-(1, 2), 3).
C2_Witness ==
    /\ ppc = "done"
    /\ tokens = <<IntToken(1), Token("MINUS", "-"), IntToken(2),
                  Token("MINUS", "-"), IntToken(3)>>
    /\ program = <<ExpressionStatement(
           InfixExpression(
               InfixExpression(IntegerLiteral(1), "-", IntegerLiteral(2)),
               "-", IntegerLiteral(3)))>>

\* ( a OP1 b ) OP2 c
IsGroupFirst(toks) ==
    /\ Len(toks) = 7
    /\ toks[1] = LPAREN /\ IsLiteral(toks[2]) /\ IsOperator(toks[3])
    /\ IsLiteral(toks[4]) /\ toks[5] = RPAREN /\ IsOperator(toks[6])
    /\ IsLiteral(toks[7])

\* c OP2 ( a OP1 b )
IsGroupLast(toks) ==
    /\ Len(toks) = 7
    /\ IsLiteral(toks[1]) /\ IsOperator(toks[2]) /\ toks[3] = LPAREN
    /\ IsLiteral(toks[4]) /\ IsOperator(toks[5]) /\ IsLiteral(toks[6])
    /\ toks[7] = RPAREN

\* Opening minus closing parentheses among toks[i..j].
RECURSIVE Balance(_, _, _)
Balance(toks, i, j) ==
    IF j < i THEN 0
    ELSE Balance(toks, i, j - 1)
         + (IF toks[j] = LPAREN THEN 1 ELSE IF toks[j] = RPAREN THEN -1 ELSE 0)

\* Whether toks[j] is the parenthesis that closes the one opened at toks[i].
Matches(toks, i, j) ==
    /\ i >= 1 /\ i < j /\ j <= Len(toks)
    /\ toks[i] = LPAREN /\ toks[j] = RPAREN
    /\ Balance(toks, i, j) = 0
    /\ \A k \in i..(j - 1) : Balance(toks, i, k) > 0

\* C3: a parenthesised sub-expression is one operand of the operator around it,
\* whatever the two operators are, and every grouped parse that succeeds ends
\* with the current token on the closing parenthesis that matches its opening one.
C3_GroupIsOneOperand ==
    /\ (ppc = "done" /\ IsGroupFirst(Body(tokens)))
       => LET t == Body(tokens) IN
          program = <<ExpressionStatement(
              InfixExpression(
                  InfixExpression(Operand(t[2]), t[3].literal, Operand(t[4])),
                  t[6].literal, Operand(t[7])))>>
    /\ (ppc = "done" /\ IsGroupLast(Body(tokens)))
       => LET t == Body(tokens) IN
          program = <<ExpressionStatement(
              InfixExpression(Operand(t[1]), t[2].literal,
                  InfixExpression(Operand(t[4]), t[5].literal, Operand(t[6]))))>>
    /\ \A k \in 1..Len(parser.grouped) :
          parser.grouped[k].parsed
          => /\ parser.grouped[k].current = "RPAREN"
             /\ Matches(tokens, parser.grouped[k].open, parser.grouped[k].close)

\* ( 1 + 2 ) * 3 has been parsed as *(+(1, 2), 3), the group closing at token 5.
C3_Witness ==
    /\ ppc = "done"
    /\ tokens = <<LPAREN, IntToken(1), Token("PLUS", "+"), IntToken(2),
                  RPAREN, Token("ASTERISK", "*"), IntToken(3)>>
    /\ program = <<ExpressionStatement(
           InfixExpression(
               InfixExpression(IntegerLiteral(1), "+", IntegerLiteral(2)),
               "*", IntegerLiteral(3)))>>
    /\ parser.grouped = <<[open |-> 1, close |-> 5, current |-> "RPAREN", parsed |-> TRUE]>>

\* Two malformed let statements, each with one of IDENT, COLON, TYPE, EQ left out
\* or replaced.
TwoMalformedLets == {a \o b : a \in MalformedLets, b \in MalformedLets}

\* C4: parse_program done with two malformed let statements has recorded exactly
\* two errors and stands at the end-of-input token.
C4_TwoMalformedLetsTwoErrors ==
    (ppc = "done" /\ tokens \in TwoMalformedLets)
    => /\ Len(parser.errors) = 2
       /\ parser.current_token = EOF

\* Whether a node of the tree under n lacks a child.
RECURSIVE HasAbsentChild(_)
HasAbsentChild(n) ==
    CASE n.type = "ExpressionStatement" -> n.expr = None \/ HasAbsentChild(n.expr)
      [] n.type = "LetStatement" ->
            n.name = None \/ n.value = None \/ HasAbsentChild(n.value)
      [] n.type = "InfixExpression" ->
            \/ n.left_node = None \/ n.right_node = None
            \/ HasAbsentChild(n.left_node) \/ HasAbsentChild(n.right_node)
      [] OTHER -> FALSE

\* C5: no statement of the program has an absent child anywhere in its tree.
C5_NoAbsentChild ==
    \A k \in 1..Len(program) : ~HasAbsentChild(program[k])

(***************************************************************************)
(* Properties of the code generator.                                       *)
(***************************************************************************)
\* The expression compiling a statement resolves; of an expression statement
\* only an infix or a call expression is compiled.
ResolvedExpression(s) ==
    CASE s.type = "ExpressionStatement" ->
            IF s.expr.type \in {"InfixExpression", "CallExpression"} THEN s.expr ELSE None
      [] s.type = "LetStatement" -> s.value
      [] s.type = "AssignStatement" -> s.right_value
      [] s.type = "ReturnStatement" -> s.return_value
      [] s.type = "IfStatement" -> s.condition
      [] OTHER -> None

\* Where the instructions of the module are: block and index in the block.
Positions(c) ==
    {p \in (1..Len(c.blocks)) \X (1..c.values) :
        p[2] <= Len(c.blocks[p[1]].instructions)}

InstructionAt(c, p) == c.blocks[p[1]].instructions[p[2]]

\* The instructions of the module with one of the opcodes ops, by id.
InstructionsOf(c, ops) ==
    {InstructionAt(c, p).id : p \in {q \in Positions(c) : InstructionAt(c, q).op \in ops}}

\* The stores into ptr, by id.
StoresInto(c, ptr) ==
    {InstructionAt(c, p).id :
        p \in {q \in Positions(c) : /\ InstructionAt(c, q).op = "store"
                                    /\ InstructionAt(c, q).args[2] = ptr}}

ArithmeticAndCompare ==
    {"add", "sub", "mul", "sdiv", "srem", "fadd", "fsub", "fmul", "fdiv", "frem",
     "icmp", "fcmp"}

\* An infix expression over one integer and one float literal.
IsKindMismatch(e) ==
    /\ e.type = "InfixExpression"
    /\ {e.left_node.type, e.right_node.type} = {"IntegerLiteral", "FloatLiteral"}

\* C6: the step that compiles a statement whose expression is an infix
\* expression over an int and a float operand appends an error to the compiler's
\* error list and emits no arithmetic or comparison instruction.
C6_KindMismatchIsReported ==
    [][(HasNext /\ IsKindMismatch(ResolvedExpression(NextStatement)))
       => /\ Len(compiler'.errors) = Len(compiler.errors) + 1
          /\ InstructionsOf(compiler', ArithmeticAndCompare)
               = InstructionsOf(compiler, ArithmeticAndCompare)]_vars

\* A call of, or a reference to, a name that lookup does not find.
IsUnboundReference(c, e) ==
    \/ e.type = "CallExpression" /\ Lookup(c, e.function.value) = None
    \/ e.type = "IdentifierLiteral" /\ Lookup(c, e.value) = None

\* C7: the step that resolves a call of, or a reference to, an unbound name
\* appends an error to the compiler's error list and does not end compile with
\* an exception.
C7_UnboundNameIsReported ==
    [][(HasNext /\ IsUnboundReference(compiler, ResolvedExpression(NextStatement)))
       => /\ Len(compiler'.errors) = Len(compiler.errors) + 1
          /\ cpc' # "raised"]_vars

\* C8: the step that compiles an AssignStatement to an unbound name appends
\* exactly one error, emits no store and leaves every frame as it was; to a
\* bound name it appends no error, emits one store, into the slot the name is
\* bound to, and leaves every frame as it was.
C8_AssignNeverDeclares ==
    [][(HasNext /\ NextStatement.type = "AssignStatement")
       => LET found == Lookup(compiler, NextStatement.ident.value)
              stores == InstructionsOf(compiler', {"store"})
                            \ InstructionsOf(compiler, {"store"})
          IN  /\ compiler'.envs = compiler.envs
              /\ IF found = None
                 THEN /\ Len(compiler'.errors) = Len(compiler.errors) + 1
                      /\ stores = {}
                 ELSE /\ compiler'.errors = compiler.errors
                      /\ Cardinality(stores) = 1
                      /\ stores \subseteq StoresInto(compiler', found.value)]_vars

\* A block that ends with its one terminator.
WellFormedBlock(b) ==
    /\ Len(b.instructions) > 0
    /\ b.instructions[Len(b.instructions)].op \in Terminators
    /\ \A k \in 1..(Len(b.instructions) - 1) : b.instructions[k].op \notin Terminators

\* C9: when compile has returned with an empty error list, every block of the
\* module ends with its one terminator.
C9_NoErrorsWellFormed ==
    (cpc = "done" /\ compiler.errors = <<>>)
    => \A b \in 1..Len(compiler.blocks) : WellFormedBlock(compiler.blocks[b])

Names == {"a", "b", "f", "g", "true", "false"}

\* The frames lookup searches from frame e.
RECURSIVE Chain(_, _)
Chain(envs, e) == IF e = 0 THEN {} ELSE {e} \cup Chain(envs, envs[e].parent)

\* The names a let statement has bound in frame e: those bound to a slot.
LetBound(c, e) ==
    {n \in DOMAIN c.envs[e].records : c.envs[e].records[n].value.kind = "instr"}

\* While the body of a function is compiled, every name the frame around the
\* function statement resolves is resolved by lookup.
OuterNamesVisible ==
    cpc = "compiling"
    => \A k \in 1..Len(work) :
          work[k].kind = "function"
          => \A n \in Names :
                EnvResolve(compiler.envs, work[k].previous_env, n) # None
                => Lookup(compiler, n) # None

\* The step that ends a function statement leaves no name a let statement bound
\* in the body's frame resolvable.
InnerNamesDiscarded ==
    AtEnd("function")
    => \A n \in LetBound(compiler, compiler.env) : Lookup(compiler', n) = None

\* C10: a name bound around a function statement is resolvable while the body
\* is compiled, and a name a let statement bound in the body is not resolvable
\* once the function statement is done.
C10_LexicalScope == []OuterNamesVisible /\ [][InnerNamesDiscarded]_vars

\* In f, after `let a`, the nested g has loaded a in its body and has bound b;
\* g is done, and b is not resolvable in f.
C10_Witness ==
    /\ cpc = "compiling"
    /\ event.kind = "function_end"
    /\ Len(work) = 2
    /\ "a" \in LetBound(compiler, compiler.env)
    /\ \E e \in 1..Len(compiler.envs) :
          /\ e \notin Chain(compiler.envs, compiler.env)
          /\ compiler.envs[e].parent = compiler.env
          /\ "b" \in LetBound(compiler, e)
    /\ Lookup(compiler, "b") = None
    /\ \E p \in Positions(compiler) :
          /\ InstructionAt(compiler, p).op = "load"
          /\ InstructionAt(compiler, p).args[1]
               = compiler.envs[compiler.env].records["a"].value

\* The function frames of the active calls of compile.
FunctionFrames == {k \in 1..Len(work) : work[k].kind = "function"}

\* While the body of a function statement is compiled, lookup of the function's
\* name gives the function and its return type.
OwnNameBound ==
    cpc = "compiling"
    => \A k \in FunctionFrames :
          Lookup(compiler, work[k].name) = Binding(work[k].func, work[k].return_type)

\* The calls of func, by id.
CallsOf(c, func) ==
    {InstructionAt(c, p).id :
        p \in {q \in Positions(c) : /\ InstructionAt(c, q).op = "call"
                                    /\ InstructionAt(c, q).args[1] = func}}

\* The step that compiles a call of a function whose body is being compiled
\* emits a call of that function.
OwnCallCompiles ==
    \A k \in FunctionFrames :
       (HasNext /\ ResolvedExpression(NextStatement) = CallExpression(work[k].name))
       => /\ compiler'.exception # "TypeError"
          /\ CallsOf(compiler', work[k].func) # CallsOf(compiler, work[k].func)

\* C11: while the body of a function statement is compiled, lookup of the
\* function's own name gives the function and its return type, and a call of the
\* function in its body compiles to a call instruction.
C11_OwnNameResolves == []OwnNameBound /\ [][OwnCallCompiles]_vars

\* In the body of f the statement `f();` has been compiled to a call of f.
C11_Witness ==
    /\ cpc = "compiling"
    /\ event = Event("expression", ExpressionStatement(CallExpression("f")))
    /\ \E k \in FunctionFrames :
          /\ work[k].name = "f"
          /\ Lookup(compiler, "f") = Binding(work[k].func, work[k].return_type)
          /\ CallsOf(compiler, work[k].func) # {}

(***************************************************************************)
(* The driver (episode_a12/main.py), from the return of parse_program on:  *)
(* parser.errors and program are what the parser has left.                 *)
(***************************************************************************)
ParseErrorLists ==
    {<<>>,
     <<[kind |-> "peek", expected |-> "IDENT", got |-> "COLON"]>>,
     <<[kind |-> "peek", expected |-> "IDENT", got |-> "COLON"],
       [kind |-> "noprefix", expected |-> "COLON", got |-> "COLON"]>>}

\* str(module) fails on an instruction with an operand that is None.
ModuleStrRaises(c) ==
    \E p \in Positions(c) :
       /\ InstructionAt(c, p).op = "cbranch"
       /\ InstructionAt(c, p).args[1] = None

\* llvm.parse_assembly refuses a module with a block that does not end with its
\* one terminator.
ParseAssemblyRaises(c) ==
    \E b \in 1..Len(c.blocks) : ~WellFormedBlock(c.blocks[b])

Exit(status, lines) ==
    driver' = [pc |-> "exited", printed |-> driver.printed \o lines, exit |-> status]

\* main.py lines 42-45
DriverParseErrors ==
    /\ driver.pc = "parsed"
    /\ Len(parser.errors) > 0
    /\ Exit(1, parser.errors)
    /\ UNCHANGED <<pvars, cvars>>

\* main.py lines 53-54: Compiler() and the call of compile
DriverCompile ==
    /\ driver.pc = "parsed"
    /\ Len(parser.errors) = 0
    /\ ast' = program
    /\ compiler' = NewCompiler
    /\ work' = <<Frame("program", program)>>
    /\ cpc' = "compiling"
    /\ event' = Event("none", None)
    /\ driver' = [driver EXCEPT !.pc = "compile"]
    /\ UNCHANGED pvars

\* An exception that leaves compile ends the run with a traceback.
DriverCompileRaised ==
    /\ driver.pc = "compile"
    /\ cpc = "raised"
    /\ Exit(1, <<"Traceback">>)
    /\ UNCHANGED <<pvars, cvars>>

\* main.py lines 57-62: COMPILER_DEBUG is True, str(module) is written out
DriverDump ==
    /\ driver.pc = "compile"
    /\ cpc = "done"
    /\ IF ModuleStrRaises(compiler) THEN Exit(1, <<"Traceback">>)
       ELSE driver' = [driver EXCEPT !.pc = "dumped"]
    /\ UNCHANGED <<pvars, cvars>>

\* main.py lines 64-68
DriverCompileErrors ==
    /\ driver.pc = "dumped"
    /\ Len(compiler.errors) > 0
    /\ Exit(1, <<"==== COMPILER ERRORS ====">> \o compiler.errors)
    /\ UNCHANGED <<pvars, cvars>>

\* main.py lines 70-80: RUN_CODE is True; parse_assembly and verify
DriverVerify ==
    /\ driver.pc = "dumped"
    /\ Len(compiler.errors) = 0
    /\ \/ /\ ParseAssemblyRaises(compiler)
          /\ driver' = [pc |-> "verify", printed |-> Append(driver.printed, "e"),
                        exit |-> 1]
       \/ /\ ~ParseAssemblyRaises(compiler)
          /\ \E ok \in BOOLEAN :
                driver' = [pc |-> IF ok THEN "verified" ELSE "verify",
                           printed |-> IF ok THEN driver.printed
                                       ELSE Append(driver.printed, "e"),
                           exit |-> IF ok THEN 0 ELSE 1]
    /\ UNCHANGED <<pvars, cvars>>

\* main.py lines 82-97: the JIT and the call of main
DriverExecute ==
    /\ driver.pc = "verified"
    /\ driver' = [pc |-> "executed",
                  printed |-> Append(driver.printed, "Program returned"),
                  exit |-> 0]
    /\ UNCHANGED <<pvars, cvars>>

\* After line 41: parse_program has returned.
DriverInit ==
    /\ tokens = <<>>
    /\ \E errs \in ParseErrorLists : parser = [NewParser(<<>>) EXCEPT !.errors = errs]
    /\ IsProgram(program)
    /\ ppc = "done"
    /\ CompilerIdle
    /\ driver = [pc |-> "parsed", printed |-> <<>>, exit |-> 0]

DriverNext ==
    \/ DriverParseErrors
    \/ DriverCompile
    \/ CompilerNext
    \/ DriverCompileRaised
    \/ DriverDump
    \/ DriverCompileErrors
    \/ DriverVerify
    \/ DriverExecute

DriverSpec == DriverInit /\ [][DriverNext]_vars

\* The verifier or the executor has been reached.
ExecutorReached == driver.pc \in {"verify", "verified", "executed"}

\* C12: with parse errors compile is never started, with compile errors after
\* compile has returned the verifier and executor are never reached, and in both
\* cases a run that has stopped has printed every error and exits with status 1.
C12_ErrorsStopTheRun ==
    /\ Len(parser.errors) > 0 => cpc = "idle" /\ ~ExecutorReached
    /\ (cpc = "done" /\ Len(compiler.errors) > 0) => ~ExecutorReached
    /\ (driver.pc = "exited" /\ Len(parser.errors) > 0)
       => /\ driver.exit = 1
          /\ \A k \in 1..Len(parser.errors) :
                \E j \in 1..Len(driver.printed) : driver.printed[j] = parser.errors[k]
    /\ (driver.pc = "exited" /\ cpc = "done" /\ Len(compiler.errors) > 0)
       => /\ driver.exit = 1
          /\ \A k \in 1..Len(compiler.errors) :
                \E j \in 1..Len(driver.printed) : driver.printed[j] = compiler.errors[k]

\* A block that holds an instruction after a terminator.
AppendedAfterTerminator(b) ==
    \E k \in 1..(Len(b.instructions) - 1) : b.instructions[k].op \in Terminators

\* compile has ended in the builder's refusal to append where there is no block.
AppendedWithoutBlock ==
    cpc = "raised" /\ compiler.exception = "AssertionError" /\ compiler.builder.block = 0

\* C13: no instruction is appended while the builder has no block, and none is
\* appended to a block that holds a terminator.
C13_AppendsToOpenBlock ==
    /\ ~AppendedWithoutBlock
    /\ \A b \in 1..Len(compiler.blocks) : ~AppendedAfterTerminator(compiler.blocks[b])

\* The frame made for the body of the function statement of work[k].
BodyFrame(k) ==
    CHOOSE e \in Chain(compiler.envs, compiler.env) :
        compiler.envs[e].parent = work[k].previous_env

\* Frame e binds the name of the function statement of work[k] to that function.
BindsFunction(c, e, k) ==
    /\ work[k].name \in DOMAIN c.envs[e].records
    /\ c.envs[e].records[work[k].name] = Binding(work[k].func, work[k].return_type)

\* C14, as stated: while the body of a function statement is compiled, the
\* frame around the statement binds the function's name to the function.
C14_BoundInEnclosingFirst ==
    cpc = "compiling"
    => \A k \in FunctionFrames : BindsFunction(compiler, work[k].previous_env, k)

\* While the body is compiled the function is bound in the body's own frame and
\* not in the frame around the statement.
BoundInBodyFrame ==
    cpc = "compiling"
    => \A k \in FunctionFrames :
          /\ BindsFunction(compiler, BodyFrame(k), k)
          /\ ~BindsFunction(compiler, work[k].previous_env, k)

\* The step that ends the function statement binds it in the frame around it.
BoundInEnclosingLast ==
    AtEnd("function") => BindsFunction(compiler', Top.previous_env, Len(work))

\* C14, amended: the function's name is bound in the body's own frame before
\* any statement of the body is compiled, and in the frame around the function
\* statement only when the body has been compiled.
C14_BoundInBodyFrameFirst == []BoundInBodyFrame /\ [][BoundInEnclosingLast]_vars

\* In the body of f a call of f has been compiled; f is bound in the body's
\* frame and the global frame has no f.
C14_Witness ==
    /\ cpc = "compiling"
    /\ event = Event("expression", ExpressionStatement(CallExpression("f")))
    /\ Len(work) = 2
    /\ work[2].kind = "function" /\ work[2].name = "f"
    /\ BindsFunction(compiler, compiler.env, 2)
    /\ "f" \notin DOMAIN compiler.envs[work[2].previous_env].records
    /\ CallsOf(compiler, work[2].func) # {}

\* C15: the step that compiles a LetStatement whose name the active frame does
\* not bind emits one alloca, binds the name to it in the active frame and
\* leaves every other frame as it was; when the active frame binds the name it
\* emits no alloca, stores into the bound slot and leaves every frame as it was.
C15_LetBindsInActiveFrame ==
    [][(HasNext /\ NextStatement.type = "LetStatement")
       => LET name == NextStatement.name.value
              e == compiler.env
              slots == InstructionsOf(compiler', {"alloca"})
                          \ InstructionsOf(compiler, {"alloca"})
              stores == InstructionsOf(compiler', {"store"})
                          \ InstructionsOf(compiler, {"store"})
          IN  /\ compiler'.env = e
              /\ \A o \in (1..Len(compiler.envs)) \ {e} :
                    compiler'.envs[o] = compiler.envs[o]
              /\ IF name \notin DOMAIN compiler.envs[e].records
                 THEN /\ Cardinality(slots) = 1
                      /\ name \in DOMAIN compiler'.envs[e].records
                      /\ compiler'.envs[e].records[name].value.kind = "instr"
                      /\ compiler'.envs[e].records[name].value.id \in slots
                 ELSE /\ slots = {}
                      /\ compiler'.envs[e] = compiler.envs[e]
                      /\ Cardinality(stores) = 1
                      /\ stores \subseteq
                            StoresInto(compiler', compiler.envs[e].records[name].value)]_vars

\* The step into a function statement keeps what was active: the frame and the
\* builder, and leaves the active frame's bindings as they were.
FunctionEntryKeeps ==
    (HasNext /\ NextStatement.type = "FunctionStatement" /\ cpc' = "compiling")
    => /\ work'[Len(work')].kind = "function"
       /\ work'[Len(work')].previous_env = compiler.env
       /\ work'[Len(work')].previous_builder = compiler.builder
       /\ compiler'.envs[compiler.env] = compiler.envs[compiler.env]
       /\ compiler'.env # compiler.env

\* No step of the body changes the frame around the function statement.
BodyKeepsEnclosing ==
    \A k \in FunctionFrames :
       (k < Len(work) \/ ~AtEnd("function"))
       => compiler'.envs[work[k].previous_env] = compiler.envs[work[k].previous_env]

\* The step that ends a function statement makes the kept frame and builder
\* active again and adds the function's name to that frame, nothing else.
FunctionExitRestores ==
    AtEnd("function")
    => /\ compiler'.env = Top.previous_env
       /\ compiler'.env # compiler.env
       /\ compiler'.builder = Top.previous_builder
       /\ compiler'.envs[Top.previous_env]
            = EnvDefine(compiler.envs[Top.previous_env], Top.name, Top.func,
                        Top.return_type)

\* C16: when a function statement has been compiled the frame and the builder
\* that were active before it are active again, the body's frame is not, and the
\* frame around the statement has gained the function's name and nothing else.
C16_FunctionRestoresFrameAndBuilder ==
    [][FunctionEntryKeeps /\ BodyKeepsEnclosing /\ FunctionExitRestores]_vars

\* In f, the nested g, whose body bound a name, is done: f's frame and f's entry
\* block are active again and f's frame binds g.
C16_Witness ==
    /\ cpc = "compiling"
    /\ event.kind = "function_end"
    /\ Len(work) = 2
    /\ compiler.env = 2
    /\ compiler.builder.block = 1
    /\ DOMAIN compiler.envs[2].records = {"f", "g"}
    /\ Len(compiler.envs) = 3
    /\ LetBound(compiler, 3) # {}

\* An infix expression with the exponent operator over two int or two float
\* literals.
IsExponent(e) ==
    /\ e.type = "InfixExpression"
    /\ e.operator = "^"
    /\ e.left_node.type \in {"IntegerLiteral", "FloatLiteral"}
    /\ e.left_node.type = e.right_node.type

\* C17: the step that compiles a statement whose expression is `^` over two
\* int or two float operands emits no instruction and appends an error to the
\* compiler's error list.
C17_ExponentIsReported ==
    [][(HasNext /\ IsExponent(ResolvedExpression(NextStatement)))
       => /\ Len(compiler'.errors) = Len(compiler.errors) + 1
          /\ compiler'.values = compiler.values]_vars

(***************************************************************************)
(* Termination of parse_program.                                           *)
(***************************************************************************)
\* A step of the loop can be taken exactly while parse_program has not
\* returned: every iteration and the return change the state.
LoopRunning == ppc = "loop"

\* parse_program is one sequential loop: an iteration that can be taken is
\* taken.  This is weak fairness of ParserNext, with its enabling condition
\* written out as LoopRunning.
ParserFairSpec ==
    ParserSpec /\ ([]<>(~LoopRunning) \/ []<><<ParserNext>>_vars)

\* Index in the token stream of the current token; end-of-input comes after
\* the last token.
TokenIndex(p) ==
    IF p.current_token.type = "EOF" THEN Len(tokens) + 1 ELSE CurrentIndex(p)

\* An iteration of the statement loop moves the current token forward.
IterationConsumes ==
    (ppc = "loop" /\ parser.current_token.type # "EOF")
    => TokenIndex(parser') > TokenIndex(parser)

\* An iteration that appends a let statement has skipped to `;` or to
\* end-of-input: the token before the new current token is `;`, or the new
\* current token is end-of-input.
SkipStops ==
    (ppc = "loop" /\ parser.current_token.type = "LET" /\ Len(program') > Len(program))
    => \/ parser'.current_token.type = "EOF"
       \/ tokens[TokenIndex(parser') - 1].type = "SEMICOLON"

\* C18: every iteration of the statement loop of parse_program consumes at
\* least one token, the skip loop of a let statement stops at `;` or at
\* end-of-input, and parse_program returns, its current token end-of-input.
C18_ParseProgramTerminates ==
    /\ [][IterationConsumes /\ SkipStops]_vars
    /\ <>(ppc = "done" /\ parser.current_token.type = "EOF")

\* parse_program has returned from a stream with a let statement it kept and
\* with errors recorded on the way.
C18_Witness ==
    /\ ppc = "done"
    /\ parser.current_token.type = "EOF"
    /\ Len(parser.errors) > 0
    /\ \E k \in 1..Len(program) : program[k].type = "LetStatement"

=============================================================================
